---- MODULE Spec2Model ----
(***************************************************************************)
(* Model of scripts/remove_logo_bg.py: remove the dark background of a     *)
(* logo by a flood fill from the image border over a luminance predicate,  *)
(* then clear isolated very dark pixels, then save the image as PNG.       *)
(*                                                                         *)
(* A pixel is the tuple <<r, g, b, a>> that px[x, y] yields for an RGBA    *)
(* image.  Luminance is kept exact by scaling: luminance(r,g,b) below is   *)
(* 255000 times the value the script computes, and a threshold t (given in *)
(* thousandths) is met when luminance(r,g,b) <= t * 255.  The palette is   *)
(* chosen away from the thresholds by far more than a float rounding.      *)
(***************************************************************************)
EXTENDS Integers, Sequences, FiniteSets, TLC

VARIABLES
    pc,         \* position of main(): load, scan_rows, scan_cols, fill,
                \* apply, clean, save, done, failed
    w, h,       \* img.size
    px,         \* img.load(): the pixel grid, written in place
    to_remove,  \* the background set
    stack,      \* the flood fill's work-list
    i,          \* position of the running for-loop (scan / clean)
    todo,       \* members of to_remove the apply loop has still to visit
    out_file,   \* what the output path holds: "orig", "partial" or "saved"
    inp,        \* the decoded input image of the first run (never written)
    pops,       \* number of stack.pop() calls of the current run
    run,        \* 1: first run, 2: run on the first run's output
    out1,       \* the image the first run saved
    background  \* BackgroundOf(inp), fixed with the input (the claims read it)

vars == <<pc, w, h, px, to_remove, stack, i, todo, out_file, inp, pops, run, out1, background>>

----------------------------------------------------------------------------
(* Bounds of the model *)

MaxW == 3
MaxH == 3
\* at most this many pixels of an input image differ from the light pixel
MaxDark == 2

----------------------------------------------------------------------------
(* Pixels and thresholds *)

\* DARK = 0.28, in thousandths
DARK == 280
\* the isolated-pixel threshold 0.15, in thousandths
ISOLATED == 150

\* (0.299 * r + 0.587 * g + 0.114 * b) / 255.0, times 255000
luminance(r, g, b) == 299 * r + 587 * g + 114 * b

\* luminance 0.2818: above DARK
Light == <<80, 70, 60, 255>>
\* luminance 0.2769: at most DARK, above ISOLATED; half transparent
Gray == <<60, 80, 50, 128>>
\* luminance 0.1496: at most ISOLATED
Black == <<30, 40, 50, 255>>
\* fully transparent and dark
Clear == <<10, 20, 30, 0>>

NonLight == {Gray, Black, Clear}

Coords(W, H) == (0 .. W - 1) \X (0 .. H - 1)

\* the W x H grid of Light pixels in which the pixels of S are as f gives them
Image(W, H, S, f) ==
    [w |-> W, h |-> H,
     px |-> [c \in Coords(W, H) |-> IF c \in S THEN f[c] ELSE Light]]

\* two seeds and an interior pixel either of them takes in
ExJoin ==
    Image(3, 3, {<<0, 1>>, <<1, 0>>, <<1, 1>>},
          [c \in {<<0, 1>>, <<1, 0>>, <<1, 1>>} |->
              IF c = <<1, 0>> THEN Black ELSE Gray])

\* one seed, a chain of three interior pixels behind it, a transparent pixel
\* beside the chain
ExChain ==
    Image(4, 4, {<<0, 1>>, <<1, 1>>, <<2, 1>>, <<2, 2>>, <<1, 2>>},
          [c \in {<<0, 1>>, <<1, 1>>, <<2, 1>>, <<2, 2>>, <<1, 2>>} |->
              IF c = <<1, 2>> THEN Clear ELSE Gray])

\* a single very dark pixel at the centre of a 5 x 5 image
ExCentre == Image(5, 5, {<<2, 2>>}, [c \in {<<2, 2>>} |-> Black])

\* a column one pixel wide, every pixel dark
ExColumn == Image(1, 3, Coords(1, 3), [c \in Coords(1, 3) |-> Gray])

\* a corner seed, an enclosed dark pixel diagonal to it, an isolated very
\* dark pixel
ExMixed ==
    Image(4, 4, {<<0, 0>>, <<1, 1>>, <<2, 2>>},
          [c \in {<<0, 0>>, <<1, 1>>, <<2, 2>>} |->
              IF c = <<2, 2>> THEN Black ELSE Gray])

Examples == {ExJoin, ExChain, ExCentre, ExColumn, ExMixed}

----------------------------------------------------------------------------
(* The predicates and writes of main() *)

\* a > 0 and luminance(r, g, b) <= DARK
DarkNoAlpha(p) == luminance(p[1], p[2], p[3]) <= DARK * 255
Dark(p) == p[4] > 0 /\ luminance(p[1], p[2], p[3]) <= DARK * 255

\* a > 0 and luminance(r, g, b) <= 0.15
IsolatedDarkAsFill(p) == p[4] > 0 /\ luminance(p[1], p[2], p[3]) <= DARK * 255
IsolatedDarkNever(p) == FALSE
IsolatedDark(p) == p[4] > 0 /\ luminance(p[1], p[2], p[3]) <= ISOLATED * 255

\* (r, g, b, 0)
TransparentZeroed(p) == <<0, 0, 0, 0>>
TransparentOpaque(p) == <<p[1], p[2], p[3], 255>>
Transparent(p) == <<p[1], p[2], p[3], 0>>

\* for x in range(w): for y in [0, h - 1]  -- the i-th coordinate visited
RowCoord(k) == <<k \div 2, IF k % 2 = 0 THEN 0 ELSE h - 1>>
\* for y in range(h): for x in [0, w - 1]
ColCoordLeftOnly(k) == <<0, k \div 2>>
ColCoord(k) == <<IF k % 2 = 0 THEN 0 ELSE w - 1, k \div 2>>
\* for x in range(w): for y in range(h)
CleanCoord(k) == <<k \div h, k % h>>

\* [(-1, 0), (1, 0), (0, -1), (0, 1)]
Dirs8 == << <<-1, 0>>, <<1, 0>>, <<0, -1>>, <<0, 1>>,
            <<-1, -1>>, <<1, 1>>, <<1, -1>>, <<-1, 1>> >>
Dirs == << <<-1, 0>>, <<1, 0>>, <<0, -1>>, <<0, 1>> >>

\* 0 <= nx < w and 0 <= ny < h and (nx, ny) not in to_remove, then
\* a > 0 and luminance(r, g, b) <= DARK
JoinsNoMember(c) ==
    /\ 0 <= c[1] /\ c[1] < w /\ 0 <= c[2] /\ c[2] < h
    /\ Dark(px[c])
JoinsNoDark(c) ==
    /\ 0 <= c[1] /\ c[1] < w /\ 0 <= c[2] /\ c[2] < h
    /\ c \notin to_remove
Joins(c) ==
    /\ 0 <= c[1] /\ c[1] < w /\ 0 <= c[2] /\ c[2] < h
    /\ c \notin to_remove
    /\ Dark(px[c])

Range(s) == { s[k] : k \in DOMAIN s }

\* the orders list(to_remove) may give: every sequence holding each member once
RECURSIVE Orders(_)
Orders(S) ==
    IF S = {} THEN { << >> }
    ELSE UNION { { <<c>> \o s : s \in Orders(S \ {c}) } : c \in S }

----------------------------------------------------------------------------
(* What the claims speak of, stated on the input image alone *)

Adj4(c, d) ==
    \/ (c[1] = d[1] /\ (c[2] = d[2] + 1 \/ d[2] = c[2] + 1))
    \/ (c[2] = d[2] /\ (c[1] = d[1] + 1 \/ d[1] = c[1] + 1))

Diagonal(c, d) ==
    /\ (c[1] = d[1] + 1 \/ d[1] = c[1] + 1)
    /\ (c[2] = d[2] + 1 \/ d[2] = c[2] + 1)

\* alpha > 0 and luminance at most t thousandths
Below(p, t) == p[4] > 0 /\ 1000 * luminance(p[1], p[2], p[3]) <= t * 255000

BorderOf(W, H) ==
    { c \in Coords(W, H) : c[1] = 0 \/ c[1] = W - 1 \/ c[2] = 0 \/ c[2] = H - 1 }

\* the members of Q joined to a member of S by a 4-connected path inside Q
RECURSIVE Connected(_, _)
Connected(S, Q) ==
    LET T == S \cup { c \in Q : \E d \in S : Adj4(c, d) }
    IN IF T = S THEN S ELSE Connected(T, Q)

\* removal condition (1) for image img: the pixels with alpha > 0 and
\* luminance <= dark_threshold that are joined to such a border pixel by a
\* 4-connected path of such pixels
BackgroundOf(img) ==
    LET Q == { c \in Coords(img.w, img.h) : Below(img.px[c], DARK) }
    IN Connected(Q \cap BorderOf(img.w, img.h), Q)

----------------------------------------------------------------------------
(* Init: main() is about to open the input, an image of at most MaxW x     *)
(* MaxH pixels of which at most MaxDark are not Light, or one of Examples  *)

Init ==
    /\ pc = "load"
    /\ \/ \E W \in 1 .. MaxW, H \in 1 .. MaxH :
             \E S \in SUBSET Coords(W, H) :
                /\ Cardinality(S) <= MaxDark
                /\ \E f \in [S -> NonLight] : inp = Image(W, H, S, f)
       \/ inp \in Examples
    /\ w = 0 /\ h = 0
    /\ px = << >>
    /\ to_remove = {}
    /\ stack = << >>
    /\ i = 0
    /\ todo = {}
    /\ out_file = "orig"
    /\ pops = 0
    /\ run = 1
    /\ out1 = << >>
    /\ background = BackgroundOf(inp)

\* img = Image.open(path).convert("RGBA"); w, h = img.size; px = img.load()
\* to_remove = set().  The second run opens the PNG the first run saved:
\* an 8-bit RGBA PNG decodes to the pixels that were encoded.
Load ==
    /\ pc = "load"
    /\ w' = inp.w /\ h' = inp.h
    /\ px' = IF run = 1 THEN inp.px ELSE out1
    /\ to_remove' = {}
    /\ stack' = << >>
    /\ i' = 0
    /\ pops' = 0
    /\ pc' = "scan_rows"
    /\ UNCHANGED <<todo, out_file, inp, run, out1, background>>

\* Image.open raises (missing, corrupt or unsupported input): main() ends
LoadFail ==
    /\ pc = "load" /\ run = 1
    /\ pc' = "failed"
    /\ UNCHANGED <<w, h, px, to_remove, stack, i, todo, out_file, inp, pops, run, out1, background>>

\* one iteration of the first border loop
ScanRow ==
    /\ pc = "scan_rows" /\ i < 2 * w
    /\ to_remove' = IF Dark(px[RowCoord(i)])
                    THEN to_remove \cup {RowCoord(i)} ELSE to_remove
    /\ i' = i + 1
    /\ UNCHANGED <<pc, w, h, px, stack, todo, out_file, inp, pops, run, out1, background>>

ScanRowEnd ==
    /\ pc = "scan_rows" /\ i = 2 * w
    /\ pc' = "scan_cols" /\ i' = 0
    /\ UNCHANGED <<w, h, px, to_remove, stack, todo, out_file, inp, pops, run, out1, background>>

\* one iteration of the second border loop
ScanCol ==
    /\ pc = "scan_cols" /\ i < 2 * h
    /\ to_remove' = IF Dark(px[ColCoord(i)])
                    THEN to_remove \cup {ColCoord(i)} ELSE to_remove
    /\ i' = i + 1
    /\ UNCHANGED <<pc, w, h, px, stack, todo, out_file, inp, pops, run, out1, background>>

\* stack = list(to_remove): the members in the set's iteration order
MakeStack ==
    /\ pc = "scan_cols" /\ i = 2 * h
    /\ stack' \in Orders(to_remove)
    /\ pc' = "fill" /\ i' = 0
    /\ UNCHANGED <<w, h, px, to_remove, todo, out_file, inp, pops, run, out1, background>>

\* one iteration of `while stack`: pop, then the four neighbours in turn
Pop ==
    /\ pc = "fill" /\ stack # << >>
    /\ LET c == stack[Len(stack)]
           nbrs == [k \in DOMAIN Dirs |-> <<c[1] + Dirs[k][1], c[2] + Dirs[k][2]>>]
           new == SelectSeq(nbrs, Joins)
       IN /\ to_remove' = to_remove \cup Range(new)
          /\ stack' = SubSeq(stack, 1, Len(stack) - 1) \o new
    /\ pops' = pops + 1
    /\ UNCHANGED <<pc, w, h, px, i, todo, out_file, inp, run, out1, background>>

\* the work-list is empty: the apply loop starts iterating to_remove
FillEnd ==
    /\ pc = "fill" /\ stack = << >>
    /\ pc' = "apply" /\ todo' = to_remove
    /\ UNCHANGED <<w, h, px, to_remove, stack, i, out_file, inp, pops, run, out1, background>>

\* one iteration of `for (x, y) in to_remove`, in the set's iteration order
Apply ==
    /\ pc = "apply"
    /\ \E c \in todo :
          /\ px' = [px EXCEPT ![c] = Transparent(px[c])]
          /\ todo' = todo \ {c}
    /\ UNCHANGED <<pc, w, h, to_remove, stack, i, out_file, inp, pops, run, out1, background>>

ApplyEnd ==
    /\ pc = "apply" /\ todo = {}
    /\ pc' = "clean" /\ i' = 0
    /\ UNCHANGED <<w, h, px, to_remove, stack, todo, out_file, inp, pops, run, out1, background>>

\* one iteration of the isolated-pixel loop
Clean ==
    /\ pc = "clean" /\ i < w * h
    /\ px' = IF IsolatedDark(px[CleanCoord(i)])
             THEN [px EXCEPT ![CleanCoord(i)] = Transparent(px[CleanCoord(i)])]
             ELSE px
    /\ i' = i + 1
    /\ UNCHANGED <<pc, w, h, to_remove, stack, todo, out_file, inp, pops, run, out1, background>>

CleanEnd ==
    /\ pc = "clean" /\ i = w * h
    /\ pc' = "save"
    /\ UNCHANGED <<w, h, px, to_remove, stack, i, todo, out_file, inp, pops, run, out1, background>>

\* img.save(out_path, "PNG") returns: the output path holds the image
Save ==
    /\ pc = "save"
    /\ out_file' = "saved"
    /\ out1' = IF run = 1 THEN px ELSE out1
    /\ pc' = "done"
    /\ UNCHANGED <<w, h, px, to_remove, stack, i, todo, inp, pops, run, background>>

\* img.save cannot open out_path for writing (permissions, missing directory)
SaveOpenFail ==
    /\ pc = "save"
    /\ pc' = "failed"
    /\ UNCHANGED <<w, h, px, to_remove, stack, i, todo, out_file, inp, pops, run, out1, background>>

\* img.save has opened out_path for writing, which empties it, and the write
\* of the encoded image then fails (disk full): main() has no temporary file
\* and no rename, the exception ends it
SaveWriteFail ==
    /\ pc = "save"
    /\ out_file' = "partial"
    /\ pc' = "failed"
    /\ UNCHANGED <<w, h, px, to_remove, stack, i, todo, inp, pops, run, out1, background>>

\* the script is run again on the file it saved
Rerun ==
    /\ pc = "done" /\ run = 1
    /\ pc' = "load" /\ run' = 2
    /\ UNCHANGED <<w, h, px, to_remove, stack, i, todo, out_file, inp, pops, out1, background>>

Next ==
    \/ Load \/ LoadFail
    \/ ScanRow \/ ScanRowEnd \/ ScanCol \/ MakeStack
    \/ Pop \/ FillEnd
    \/ Apply \/ ApplyEnd
    \/ Clean \/ CleanEnd
    \/ Save \/ SaveOpenFail \/ SaveWriteFail

Spec == Init /\ [][Next]_vars

\* main() up to the end of the flood fill
NextFill ==
    \/ Load
    \/ ScanRow \/ ScanRowEnd \/ ScanCol \/ MakeStack
    \/ Pop \/ FillEnd

\* main() is sequential: it takes its next step as long as it has one
FillSpec == Init /\ [][NextFill]_vars /\ WF_vars(NextFill)

NextTwice == Next \/ Rerun

SpecTwice == Init /\ [][NextTwice]_vars

----------------------------------------------------------------------------
(* State predicates the claims use *)

Grid == DOMAIN inp.px

OnBorder(c) == c[1] = 0 \/ c[1] = inp.w - 1 \/ c[2] = 0 \/ c[2] = inp.h - 1

\* the input pixel at c has alpha > 0 and luminance <= dark_threshold
Qualifying(c) == Below(inp.px[c], DARK)

\* removal condition (1): c is in the background of the input
InBackground(c) == c \in background

\* removal condition (2)
VeryDark(c) == Below(inp.px[c], ISOLATED)

Changed(c) == px[c][4] # inp.px[c][4]

\* main() holds an image: from after load to its end
Loaded == pc \notin {"load", "failed"} \/ (pc = "failed" /\ px # << >>)

Finished == pc \in {"save", "done"}

HasDuplicate(s) == \E a, b \in DOMAIN s : a # b /\ s[a] = s[b]

----------------------------------------------------------------------------
(* C1: a pixel's alpha differs from its input alpha only if the pixel is   *)
(* in the background set of the input (qualifying and joined to a          *)
(* qualifying border pixel by a 4-connected path of qualifying pixels) or  *)
(* had alpha > 0 and luminance <= isolated_threshold; every other pixel    *)
(* keeps exactly its input alpha.                                          *)
C1_AlphaChangesOnlyWhereRemovable ==
    Finished => \A c \in Grid : Changed(c) => InBackground(c) \/ VeryDark(c)

\* an output in which one pixel went by each condition alone and a third,
\* qualifying, pixel was kept
C1_Witness ==
    /\ pc = "done"
    /\ \E c \in Grid : Changed(c) /\ InBackground(c) /\ ~VeryDark(c)
    /\ \E c \in Grid : Changed(c) /\ VeryDark(c) /\ ~InBackground(c)
    /\ \E c \in Grid : ~Changed(c) /\ Qualifying(c)

(* C2: in every state from load to save the image has the input's width    *)
(* and height and every pixel keeps its input red, green and blue.         *)
C2_RgbAndSizePreserved ==
    Loaded => /\ w = inp.w /\ h = inp.h
              /\ DOMAIN px = Grid
              /\ \A c \in Grid : /\ px[c][1] = inp.px[c][1]
                                 /\ px[c][2] = inp.px[c][2]
                                 /\ px[c][3] = inp.px[c][3]

\* the cleanup loop has run and both writing stages have written
C2_Witness ==
    /\ pc = "clean" /\ i = w * h
    /\ \E c \in Grid : Changed(c) /\ InBackground(c)
    /\ \E c \in Grid : Changed(c) /\ ~InBackground(c)

(* C3: in every state every pixel's alpha is its input alpha or 0, and a   *)
(* pixel whose input alpha is 0 keeps alpha 0, is never in the background  *)
(* set and never on the work-list.                                         *)
C3_AlphaMonotone ==
    Loaded => \A c \in Grid :
                 /\ px[c][4] = inp.px[c][4] \/ px[c][4] = 0
                 /\ px[c][4] <= inp.px[c][4]
                 /\ inp.px[c][4] = 0 =>
                       /\ px[c][4] = 0
                       /\ c \notin to_remove
                       /\ \A k \in DOMAIN stack : stack[k] # c

\* a transparent dark border pixel next to a member of the background set,
\* and a half transparent pixel cleared
C3_Witness ==
    /\ pc = "done"
    /\ \E c \in Grid : /\ OnBorder(c) /\ inp.px[c] = Clear
                       /\ \E d \in to_remove : Adj4(c, d)
    /\ \E c \in Grid : inp.px[c][4] = 128 /\ px[c][4] = 0

(* C4: a run on the output of a first run leaves the image identical to    *)
(* that output: its background set is empty and neither the apply loop     *)
(* nor the isolated-pixel cleanup changes a pixel.                         *)
C4_Idempotent ==
    (run = 2 /\ pc # "load") =>
        /\ px = out1
        /\ to_remove = {}
        /\ stack = << >>

\* the second run is over; the first one removed pixels and left a dark
\* opaque pixel and a transparent one in its output
C4_Witness ==
    /\ run = 2 /\ pc = "done"
    /\ out1 # inp.px
    /\ \E c \in Grid : Dark(out1[c])
    /\ \E c \in Grid : out1[c][4] = 0

(* C5: in every state of seed collection and flood fill every member of    *)
(* the background set is in bounds, has alpha > 0 and luminance <=         *)
(* dark_threshold, and is a border pixel or joined to a border pixel of    *)
(* the set by a 4-connected path inside the set; everything on the         *)
(* work-list is a member of the set.                                       *)
C5_BackgroundSetSound ==
    pc \in {"scan_rows", "scan_cols", "fill"} =>
        /\ to_remove \subseteq Grid
        /\ \A c \in to_remove : Below(px[c], DARK)
        /\ \/ \A c \in to_remove : OnBorder(c)
           \/ to_remove = Connected({ c \in to_remove : OnBorder(c) }, to_remove)
        /\ \A k \in DOMAIN stack : stack[k] \in to_remove

\* the fill is under way and has taken in a pixel that is not on the border
C5_Witness ==
    /\ pc = "fill" /\ Len(stack) >= 2 /\ pops > 0
    /\ \E c \in to_remove : ~OnBorder(c)

(* C6: the work-list loop ends, after at most W x H pops: during the fill  *)
(* the pops made and the entries waiting add up to the size of the         *)
(* background set (each member is pushed once, when it enters the set),    *)
(* the work-list holds no coordinate twice, and a fill that has started    *)
(* reaches the apply loop; also for grids one pixel wide or high.          *)
C6_FillTerminates ==
    /\ [](pc = "fill" => /\ pops + Len(stack) = Cardinality(to_remove)
                         /\ ~HasDuplicate(stack))
    /\ [](Loaded => pops <= w * h)
    /\ (pc = "fill") ~> (pc = "apply" /\ stack = << >>)

\* a grid one pixel wide whose fill ended after exactly W x H pops
C6_Witness ==
    /\ pc = "apply" /\ w = 1 /\ h >= 2
    /\ pops = w * h

(* C7: either load, process and save all complete, or nothing is written   *)
(* to the output path: a decode error at load or a write error during save *)
(* leaves the file at the output path exactly as it was.                   *)
C7_AllOrNothing ==
    /\ out_file \in {"orig", "saved"}
    /\ out_file = "saved" => pc = "done"
    /\ pc = "failed" => out_file = "orig"

(* C8: a pixel with alpha > 0 and luminance above isolated_threshold that  *)
(* has no 4-connected path of qualifying pixels to a qualifying border     *)
(* pixel keeps its input alpha, also when it is itself qualifying and      *)
(* diagonally adjacent to a member of the background set; the background   *)
(* set never holds a pixel that is not so connected.                       *)
C8_FourConnectedContainment ==
    /\ Loaded => \A c \in to_remove : InBackground(c)
    /\ Finished => \A c \in Grid :
                      (inp.px[c][4] > 0 /\ ~VeryDark(c) /\ ~InBackground(c))
                          => ~Changed(c)

\* a qualifying pixel kept although a diagonal neighbour was removed
C8_Witness ==
    /\ pc = "done"
    /\ \E c \in Grid :
          /\ Qualifying(c) /\ ~VeryDark(c) /\ ~Changed(c)
          /\ \E d \in to_remove : Diagonal(c, d) /\ px[d][4] = 0

(* C9: every pixel with input alpha > 0 and luminance <=                   *)
(* isolated_threshold has alpha 0 in the output, connected to the          *)
(* background set or not.                                                  *)
C9_IsolatedDarkRemoved ==
    Finished => \A c \in Grid : VeryDark(c) => px[c][4] = 0

\* an interior very dark pixel with no qualifying neighbour, cleared
C9_Witness ==
    /\ pc = "done"
    /\ \E c \in Grid :
          /\ VeryDark(c) /\ ~OnBorder(c) /\ c \notin to_remove
          /\ \A d \in Grid : Adj4(c, d) => ~Qualifying(d)
          /\ px[c][4] = 0

(* C10: once the work-list is empty the background set is closed and is    *)
(* exactly the set of qualifying pixels 4-connected to a qualifying border *)
(* pixel, whatever the order of the seeds on the work-list, and all its    *)
(* members end with alpha 0.                                               *)
C10_FillComplete ==
    /\ ((pc = "fill" /\ stack = << >>) \/ pc \in {"apply", "clean", "save", "done"}) =>
          /\ to_remove = background
          /\ \A c \in Grid :
                (Qualifying(c) /\ c \notin to_remove) =>
                    /\ ~OnBorder(c)
                    /\ \A d \in to_remove : ~Adj4(c, d)
    /\ Finished => \A c \in background : px[c][4] = 0

\* a fill that started from two seeds and took in an interior pixel
C10_Witness ==
    /\ pc = "done"
    /\ \E c, d \in to_remove : c # d /\ OnBorder(c) /\ OnBorder(d)
    /\ \E c \in to_remove : ~OnBorder(c)
    /\ \A c \in to_remove : px[c][4] = 0

====
